---------------------------- MODULE Spec2Model ----------------------------
(***************************************************************************)
(* HumanLipidQuantifier: a model of the three scripts of the pipeline.     *)
(*                                                                         *)
(*   03_Quantification/HumanLipidQuantifier.py  key-set reconciliation,    *)
(*                                              percentage, circle diagram *)
(*   02_Conversion/ConvertXmlToJson.py          HMDB XML  -> JSON records  *)
(*   02_Conversion/ConvertSdfToJson.py          LIPID MAPS SDF -> JSON     *)
(*                                                                         *)
(* Numbers.  Python floats are modelled in fixed point: a length is an     *)
(* integer number of thousandths (1.784 is 1784), an area an integer       *)
(* number of millionths (10 is 10000000), so that length * length is an    *)
(* area.  pi is 355/113.  Every comparison a property makes allows for the *)
(* rounding of this representation (LenTol, AreaTol).  A percentage is an  *)
(* integer number of hundredths (66.67 is 6667).                           *)
(***************************************************************************)
EXTENDS Integers, Sequences, FiniteSets

VARIABLES
    pc,                         \* position of the running script
    lipids_data,                \* json.load of data/lipids.json
    metabolites_data,           \* json.load of data/metabolites.json
    save_txt,                   \* the flags set at the top of __main__
    save_fig,
    total_metabolite_inchikeys,
    total_lipid_inchikeys,
    total_common_inchikeys,
    common_inchikeys,           \* result tuple of count_matching_inchikeys
    common_smiles,
    common_formula,
    percent,                    \* hundredths of a percent
    error,                      \* the uncaught exception that ended the run
    stdout,                     \* lines printed so far
    files,                      \* files written so far
    geometry,                   \* radii, sizes and positions of the plot
    xml_file,                   \* data/hmdb_metabolites.xml: its elements
    event_pos,                  \* events ET.iterparse has delivered
    metabolite_data,            \* the list ConvertXmlToJson builds
    cleared,                    \* elements elem.clear() was called on
    sdf_file,                   \* data/structures.sdf: its molecules
    mol_pos,                    \* molecules the supplier has delivered
    data,                       \* the list sdf_to_json builds
    json_file,                  \* what json.dump wrote
    open_handles                \* files a converter holds open

\* The state of HumanLipidQuantifier.py and that of the two converters.
qvars == <<lipids_data, metabolites_data, save_txt, save_fig,
           total_metabolite_inchikeys, total_lipid_inchikeys,
           total_common_inchikeys, common_inchikeys, common_smiles,
           common_formula, percent, error, files, geometry>>

cvars == <<xml_file, event_pos, metabolite_data, cleared, sdf_file, mol_pos,
           data, json_file, open_handles>>

vars == <<pc, stdout, qvars, cvars>>

-----------------------------------------------------------------------------
(* Bounds of the model.                                                    *)

\* Records in data/lipids.json and data/metabolites.json together.
MaxRecords == 3

\* Largest key count drawn for the percentage and the circle geometry.
MaxCount == 32

\* Entry elements of the XML file, molecules of the SDF file.
MaxEntries == 2

-----------------------------------------------------------------------------
(* Values.                                                                 *)

\* Python's None, JSON's null.  No key value is this string.
None == "<None>"

Unset == 0 - 1

NoError == "none"

InchiKeyValues == {"X1", "X2"}
SmilesValues   == {"S1"}
FormulaValues  == {"F1"}

\* A record of lipids.json: ConvertSdfToJson writes every key, null when the
\* molecule lacks the property.
LipidRecords ==
    [INCHI_KEY : InchiKeyValues \cup {None},
     SMILES    : SmilesValues \cup {None},
     FORMULA   : FormulaValues \cup {None}]

\* A record of metabolites.json: ConvertXmlToJson leaves a key out when the
\* entry lacks the sub-element and writes null when the sub-element is empty.
WellTypedMetabolite(r) ==
    /\ "inchikey" \in DOMAIN r => r["inchikey"] \in InchiKeyValues \cup {None}
    /\ "smiles" \in DOMAIN r => r["smiles"] \in SmilesValues
    /\ "chemical_formula" \in DOMAIN r => r["chemical_formula"] \in FormulaValues

MetaboliteRecords ==
    { r \in UNION { [D -> InchiKeyValues \cup SmilesValues \cup FormulaValues
                              \cup {None}]
                    : D \in SUBSET {"inchikey", "smiles", "chemical_formula"} }
        : WellTypedMetabolite(r) }

SeqsUpTo(S, n) == UNION { [1..k -> S] : k \in 0..n }

Min(a, b) == IF a <= b THEN a ELSE b
Max(a, b) == IF a >= b THEN a ELSE b
Abs(a) == IF a >= 0 THEN a ELSE 0 - a

-----------------------------------------------------------------------------
(* HumanLipidQuantifier.py: the key sets.                                  *)

\* dict.get(key): the value, or None when the record has no such key.
Get(entry, key) == IF key \in DOMAIN entry THEN entry[key] ELSE None

ExtractKeepingNone(dataset, key) ==
    { Get(dataset[i], key) : i \in DOMAIN dataset }

\* set(entry.get(key) for entry in data if entry.get(key) is not None)
extract_values(dataset, key) ==
    { Get(dataset[i], key) : i \in { j \in DOMAIN dataset : Get(dataset[j], key) # None } }

DifferenceInsteadOfIntersection(a, b) == { x \in a : x \notin b }

UnionInsteadOfIntersection(a, b) == a \cup b

\* a.intersection(b): the elements of a that are in b.
Intersection(a, b) == { x \in a : x \in b }

\* count_matching_inchikeys: the three common sets, lipid set as receiver.
count_matching_inchikeys(lipids, metabolites) ==
    [inchikeys |-> Intersection(extract_values(lipids, "INCHI_KEY"),
                                extract_values(metabolites, "inchikey")),
     smiles    |-> Intersection(extract_values(lipids, "SMILES"),
                                extract_values(metabolites, "smiles")),
     formula   |-> Intersection(extract_values(lipids, "FORMULA"),
                                extract_values(metabolites, "chemical_formula"))]

-----------------------------------------------------------------------------
(* HumanLipidQuantifier.py: the percentage.                                *)

RoundHalfUp(num, den) == (2 * num + den) \div (2 * den)

\* round(x, 2) of the float x = 100 * c / den, as round(num / den) with
\* num = 10000 * c: Python rounds x correctly to the nearest hundredth, and an
\* x exactly halfway between two hundredths to the even one.  For den < 4000
\* every halfway quotient is a float exactly (its denominator is 8 or less),
\* so the result is that of the exact quotient.
PyRound(num, den) ==
    LET q == num \div den
        r == num % den
    IN  IF 2 * r < den THEN q
        ELSE IF 2 * r > den THEN q + 1
        ELSE IF q % 2 = 0 THEN q ELSE q + 1

\* round(100 * common / total, 2), in hundredths.
Percent(common, total) == PyRound(100 * 100 * common, total)

-----------------------------------------------------------------------------
(* HumanLipidQuantifier.py: the circle geometry of plot_inchikey_cycles.   *)

AreaUnit == 1000 * 1000
LenUnit == 10 * 100

\* size_metabolite = 10
size_metabolite == 10

\* pos_lipid = (0, 2.23718218257649), in thousandths.
pos_lipid_y == 2237

\* pos_common = (0, 1.67411), in thousandths.
pos_common_y == 1674

RECURSIVE ISqrtIn(_, _, _)
ISqrtIn(n, lo, hi) ==
    IF lo >= hi THEN lo
    ELSE LET mid == (lo + hi + 1) \div 2
         IN  IF mid * mid <= n THEN ISqrtIn(n, mid, hi)
             ELSE ISqrtIn(n, lo, mid - 1)

\* floor(sqrt(n)) for 0 <= n < 2^30.
ISqrt(n) == ISqrtIn(n, 0, 32767)

\* a / pi with pi = 355/113, without leaving 32 bits.
DivPi(a) == (a \div 355) * 113 + ((a % 355) * 113) \div 355

\* math.sqrt(size / math.pi): an area in millionths to a length in thousandths.
Radius(size) == ISqrt(DivPi(size))

\* lines 155-181 as a function of the three key counts; total_metabolite > 0.
CircleGeometry(total_metabolite, total_lipid, total_common) ==
    LET size_lipid  == (size_metabolite * AreaUnit * total_lipid)
                           \div total_metabolite
        size_common == (size_metabolite * AreaUnit * total_common)
                           \div total_metabolite
    IN  [size_metabolite   |-> size_metabolite * AreaUnit,
         size_lipid        |-> size_lipid,
         size_common       |-> size_common,
         radius_metabolite |-> Radius(size_metabolite * AreaUnit),
         radius_lipid      |-> Radius(size_lipid),
         radius_common     |-> Radius(size_common),
         pos_metabolite    |-> <<0, 0>>,
         pos_lipid         |-> <<0, pos_lipid_y>>,
         pos_common        |-> <<0, pos_common_y>>]

NoGeometry == [size_metabolite |-> 0]

Unwritten == <<"unwritten">>

\* The converters are other scripts: nothing of theirs is in this run.
NoConversion ==
    /\ xml_file = <<>>
    /\ event_pos = 0
    /\ metabolite_data = <<>>
    /\ cleared = {}
    /\ sdf_file = <<>>
    /\ mol_pos = 0
    /\ data = <<>>
    /\ json_file = Unwritten
    /\ open_handles = {}

-----------------------------------------------------------------------------
(* HumanLipidQuantifier.py: the run of __main__.                           *)

InitQuantifier ==
    /\ pc = "loaded"
    /\ \E nl \in 0..MaxRecords :
         /\ lipids_data \in [1..nl -> LipidRecords]
         /\ metabolites_data \in SeqsUpTo(MetaboliteRecords, MaxRecords - nl)
    /\ save_txt \in BOOLEAN
    /\ save_fig \in BOOLEAN
    /\ total_metabolite_inchikeys = Unset
    /\ total_lipid_inchikeys = Unset
    /\ total_common_inchikeys = Unset
    /\ common_inchikeys = {}
    /\ common_smiles = {}
    /\ common_formula = {}
    /\ percent = Unset
    /\ error = NoError
    /\ stdout = <<>>
    /\ files = {}
    /\ geometry = NoGeometry
    /\ NoConversion

\* lines 265-269
CountSizes ==
    /\ pc = "loaded"
    /\ total_metabolite_inchikeys' =
           Cardinality(extract_values(metabolites_data, "inchikey"))
    /\ total_lipid_inchikeys' =
           Cardinality(extract_values(lipids_data, "INCHI_KEY"))
    /\ pc' = "counted"
    /\ UNCHANGED cvars
    /\ UNCHANGED <<lipids_data, metabolites_data, save_txt, save_fig,
                   total_common_inchikeys, common_inchikeys, common_smiles,
                   common_formula, percent, error, stdout, files, geometry>>

\* save_as_txt(data_set, file_name): the file and the printed line.
SavedLine(data_set, file_name) ==
    <<"elements saved", Cardinality(data_set), file_name>>

\* lines 271-274, with count_matching_inchikeys (lines 105-127) and, when
\* save_txt, its two calls of save_as_txt (lines 117-120).
CountMatching ==
    /\ pc = "counted"
    /\ LET common == count_matching_inchikeys(lipids_data, metabolites_data)
       IN  /\ common_inchikeys' = common.inchikeys
           /\ common_smiles' = common.smiles
           /\ common_formula' = common.formula
    /\ IF save_txt
       THEN /\ files' = files \cup {"txt/lipid_inchikeys.txt",
                                    "txt/metabolite_inchikeys.txt"}
            /\ stdout' = stdout \o
                 << SavedLine(extract_values(lipids_data, "INCHI_KEY"),
                              "txt/lipid_inchikeys.txt"),
                    SavedLine(extract_values(metabolites_data, "inchikey"),
                              "txt/metabolite_inchikeys.txt") >>
       ELSE UNCHANGED <<files, stdout>>
    /\ pc' = "matched"
    /\ UNCHANGED cvars
    /\ UNCHANGED <<lipids_data, metabolites_data, save_txt, save_fig,
                   total_metabolite_inchikeys, total_lipid_inchikeys,
                   total_common_inchikeys, percent, error, geometry>>

\* lines 276-278: the division raises ZeroDivisionError when the metabolite
\* key set is empty; nothing catches it and the script ends.
CalcPercent ==
    /\ pc = "matched"
    /\ IF total_metabolite_inchikeys = 0
       THEN /\ error' = "ZeroDivisionError"
            /\ pc' = "halted"
            /\ UNCHANGED percent
       ELSE /\ percent' = Percent(Cardinality(common_inchikeys),
                                  total_metabolite_inchikeys)
            /\ pc' = "percent"
            /\ UNCHANGED error
    /\ UNCHANGED cvars
    /\ UNCHANGED <<lipids_data, metabolites_data, save_txt, save_fig,
                   total_metabolite_inchikeys, total_lipid_inchikeys,
                   total_common_inchikeys, common_inchikeys, common_smiles,
                   common_formula, stdout, files, geometry>>

\* lines 280-292
PrintResults ==
    /\ pc = "percent"
    /\ stdout' = stdout \o
         << <<"in metabolite dataset", total_metabolite_inchikeys>>,
            <<"in lipid dataset", total_lipid_inchikeys>>,
            <<"Number of matching InChiKeys", Cardinality(common_inchikeys)>>,
            <<"Percentage of lipids relative to all metabolites", percent>> >>
    /\ pc' = "printed"
    /\ UNCHANGED cvars
    /\ UNCHANGED <<lipids_data, metabolites_data, save_txt, save_fig,
                   total_metabolite_inchikeys, total_lipid_inchikeys,
                   total_common_inchikeys, common_inchikeys, common_smiles,
                   common_formula, percent, error, files, geometry>>

\* lines 294-296 with plot_inchikey_cycles (lines 145-246): the key sets are
\* extracted again, the sizes, radii and positions computed, the figure saved
\* when save_fig.
Plot ==
    /\ pc = "printed"
    /\ LET common == count_matching_inchikeys(lipids_data, metabolites_data)
           n_met  == Cardinality(extract_values(metabolites_data, "inchikey"))
           n_lip  == Cardinality(extract_values(lipids_data, "INCHI_KEY"))
           n_com  == Cardinality(common.inchikeys)
       IN  /\ total_common_inchikeys' = n_com
           /\ geometry' = CircleGeometry(n_met, n_lip, n_com)
    /\ files' = IF save_fig
                THEN files \cup {"figures/intersection_plot_without_logo.png"}
                ELSE files
    /\ pc' = "done"
    /\ UNCHANGED cvars
    /\ UNCHANGED <<lipids_data, metabolites_data, save_txt, save_fig,
                   total_metabolite_inchikeys, total_lipid_inchikeys,
                   common_inchikeys, common_smiles, common_formula, percent,
                   error, stdout>>

NextQuantifier ==
    \/ CountSizes
    \/ CountMatching
    \/ CalcPercent
    \/ PrintResults
    \/ Plot

-----------------------------------------------------------------------------
(* The percentage and the geometry as functions of the key counts alone:   *)
(* every triple with common <= min(metabolite, lipid) is the counts of     *)
(* some pair of datasets.                                                  *)

InitCounts ==
    /\ pc = "counts"
    /\ total_metabolite_inchikeys \in 0..MaxCount
    /\ total_lipid_inchikeys \in 0..MaxCount
    /\ total_common_inchikeys \in
           0..Min(total_metabolite_inchikeys, total_lipid_inchikeys)
    /\ lipids_data = <<>>
    /\ metabolites_data = <<>>
    /\ save_txt = FALSE
    /\ save_fig = FALSE
    /\ common_inchikeys = {}
    /\ common_smiles = {}
    /\ common_formula = {}
    /\ percent = Unset
    /\ error = NoError
    /\ stdout = <<>>
    /\ files = {}
    /\ geometry = NoGeometry
    /\ NoConversion

\* lines 276-278 on the counts
PercentOfCounts ==
    /\ pc = "counts"
    /\ IF total_metabolite_inchikeys = 0
       THEN /\ error' = "ZeroDivisionError"
            /\ pc' = "halted"
            /\ UNCHANGED percent
       ELSE /\ percent' = Percent(total_common_inchikeys,
                                  total_metabolite_inchikeys)
            /\ pc' = "percent"
            /\ UNCHANGED error
    /\ UNCHANGED cvars
    /\ UNCHANGED <<lipids_data, metabolites_data, save_txt, save_fig,
                   total_metabolite_inchikeys, total_lipid_inchikeys,
                   total_common_inchikeys, common_inchikeys, common_smiles,
                   common_formula, stdout, files, geometry>>

\* lines 155-181 on the counts
GeometryOfCounts ==
    /\ pc = "percent"
    /\ geometry' = CircleGeometry(total_metabolite_inchikeys,
                                  total_lipid_inchikeys,
                                  total_common_inchikeys)
    /\ pc' = "done"
    /\ UNCHANGED cvars
    /\ UNCHANGED <<lipids_data, metabolites_data, save_txt, save_fig,
                   total_metabolite_inchikeys, total_lipid_inchikeys,
                   total_common_inchikeys, common_inchikeys, common_smiles,
                   common_formula, percent, error, stdout, files>>

NextCounts ==
    \/ PercentOfCounts
    \/ GeometryOfCounts

-----------------------------------------------------------------------------
(* ConvertXmlToJson.py.                                                    *)
(*                                                                         *)
(* The XML file is the sequence of the root's child elements.  An element  *)
(* is [tag, subs]: subs maps the tag of each sub-element it has to that    *)
(* sub-element's text, None for an empty sub-element.  A tag is the        *)
(* sequence of the pieces of the string elem.tag, the namespace in braces  *)
(* first.                                                                  *)

HmdbNamespace == "{http://www.hmdb.ca}"

HmdbTag(local) == <<HmdbNamespace, local>>

\* The sub-elements the file header documents, in document order.
SubTags == <<"accession", "name", "iupac_name", "chemical_formula",
             "inchikey", "smiles">>

SubTagSet == { SubTags[i] : i \in DOMAIN SubTags }

\* key_order of parse_metabolite
key_order == <<"accession", "iupac_name", "chemical_formula", "inchikey",
               "smiles">>

KeyOrderSet == { key_order[i] : i \in DOMAIN key_order }

FullSubs == [k \in SubTagSet |-> "v"]

\* The elements drawn: every sub-element present with text, or one of them
\* missing, or one of them empty.
ElementSubs ==
    {FullSubs}
      \cup { [k \in SubTagSet \ {m} |-> "v"] : m \in SubTagSet }
      \cup { [FullSubs EXCEPT ![m] = None] : m \in SubTagSet }

\* The tag "{http://www.hmdb.ca}xmetabolite": an element that is not an
\* entry and whose name ends with the entry's.
OtherTag == <<HmdbNamespace, "x", "metabolite">>

\* A place of the file where the markup is not well-formed.
NotWellFormed == [tag |-> <<>>, subs |-> <<>>]

XmlElements ==
    [tag : {HmdbTag("metabolite")}, subs : ElementSubs]
      \cup {[tag |-> OtherTag, subs |-> FullSubs]}
      \cup {NotWellFormed}

WholeTagIs(tag, suffix) == tag = <<suffix>>

\* str.endswith, on the pieces of the string.
EndsWith(tag, suffix) == Len(tag) > 0 /\ tag[Len(tag)] = suffix

RECURSIVE SubEvents(_, _, _)
SubEvents(elem, i, k) ==
    IF k > Len(SubTags) THEN <<>>
    ELSE (IF SubTags[k] \in DOMAIN elem.subs
          THEN << [event |-> "start", elem |-> i, tag |-> HmdbTag(SubTags[k])],
                  [event |-> "end", elem |-> i, tag |-> HmdbTag(SubTags[k])] >>
          ELSE <<>>)
         \o SubEvents(elem, i, k + 1)

RECURSIVE ElementEvents(_, _)
ElementEvents(doc, i) ==
    IF i > Len(doc) THEN <<>>
    ELSE << [event |-> "start", elem |-> i, tag |-> doc[i].tag] >>
         \o SubEvents(doc[i], i, 1)
         \o << [event |-> "end", elem |-> i, tag |-> doc[i].tag] >>
         \o ElementEvents(doc, i + 1)

\* The elements before the first place that is not well-formed.
RECURSIVE WellFormedPrefix(_)
WellFormedPrefix(doc) ==
    IF doc = <<>> \/ Head(doc) = NotWellFormed THEN <<>>
    ELSE <<Head(doc)>> \o WellFormedPrefix(Tail(doc))

\* The parser raises ParseError once the events before the place are read.
ParseFails(doc) == WellFormedPrefix(doc) # doc

\* ET.iterparse(xml_file, events=('start', 'end')): the events in document
\* order, up to the place where the parser fails if there is one; elem is the
\* index of the root's child the event is in (0: the root).
IterParse(doc) ==
    << [event |-> "start", elem |-> 0, tag |-> HmdbTag("hmdb")] >>
    \o ElementEvents(WellFormedPrefix(doc), 1)
    \o (IF ParseFails(doc) THEN <<>>
        ELSE << [event |-> "end", elem |-> 0, tag |-> HmdbTag("hmdb")] >>)

\* if element is not None
SetKey(subs, key) == key \in DOMAIN subs

\* parse_metabolite: for each key of key_order, find the sub-element and, if
\* there is one, set the key to its text.
parse_metabolite(subs) ==
    [key \in { k \in KeyOrderSet : SetKey(subs, k) } |-> Get(subs, key)]

JsonNull == [null |-> TRUE]

\* json.dump of a list of dicts: None is written null, a string as a string.
JsonDump(records) ==
    [i \in DOMAIN records |->
        [k \in DOMAIN records[i] |->
            IF records[i][k] = None THEN JsonNull
            ELSE [string |-> records[i][k]]]]

NoQuantifier ==
    /\ lipids_data = <<>>
    /\ metabolites_data = <<>>
    /\ save_txt = FALSE
    /\ save_fig = FALSE
    /\ total_metabolite_inchikeys = Unset
    /\ total_lipid_inchikeys = Unset
    /\ total_common_inchikeys = Unset
    /\ common_inchikeys = {}
    /\ common_smiles = {}
    /\ common_formula = {}
    /\ percent = Unset
    /\ error = NoError
    /\ files = {}
    /\ geometry = NoGeometry

ClearedBeforeRead(elem) == <<>>

\* The sub-elements find() can reach below an element: none once elem.clear()
\* has dropped its children (the root's own tag never passes the loop's test).
SubsOf(elem) ==
    IF elem = 0 \/ elem \in cleared THEN <<>> ELSE xml_file[elem].subs

\* with open(name, 'w') as f: the file is open inside the block only, so the
\* files held open after the block are those held before it.
OpenUnclosed(handles, name) == handles \cup {name}

WithOpen(handles, name) == handles

InitXml ==
    /\ pc = "xml_loop"
    /\ open_handles = {"data/hmdb_metabolites.xml"}
    /\ xml_file \in SeqsUpTo(XmlElements, MaxEntries)
    /\ event_pos = 0
    /\ metabolite_data = <<>>
    /\ cleared = {}
    /\ sdf_file = <<>>
    /\ mol_pos = 0
    /\ data = <<>>
    /\ json_file = Unwritten
    /\ stdout = <<>>
    /\ NoQuantifier

\* lines 62-65: one turn of the loop over the events.
XmlEvent ==
    /\ pc = "xml_loop"
    /\ event_pos < Len(IterParse(xml_file))
    /\ LET ev == IterParse(xml_file)[event_pos + 1]
       IN  IF EndsWith(ev.tag, "metabolite") /\ ev.event = "end"
           THEN /\ metabolite_data' =
                      Append(metabolite_data, parse_metabolite(SubsOf(ev.elem)))
                /\ cleared' = cleared \cup {ev.elem}
           ELSE UNCHANGED <<metabolite_data, cleared>>
    /\ event_pos' = event_pos + 1
    /\ UNCHANGED <<pc, stdout, xml_file, sdf_file, mol_pos, data, json_file,
                   open_handles>>
    /\ UNCHANGED qvars

\* line 62, the parser failing: the iterator closes the source it opened as
\* ParseError leaves it; nothing catches the error and the script ends.
XmlParseError ==
    /\ pc = "xml_loop"
    /\ event_pos = Len(IterParse(xml_file))
    /\ ParseFails(xml_file)
    /\ error' = "ParseError"
    /\ open_handles' = open_handles \ {"data/hmdb_metabolites.xml"}
    /\ pc' = "halted"
    /\ UNCHANGED <<stdout, xml_file, event_pos, metabolite_data, cleared,
                   sdf_file, mol_pos, data, json_file>>
    /\ UNCHANGED <<lipids_data, metabolites_data, save_txt, save_fig,
                   total_metabolite_inchikeys, total_lipid_inchikeys,
                   total_common_inchikeys, common_inchikeys, common_smiles,
                   common_formula, percent, files, geometry>>

\* line 62, the events exhausted: the iterator closes the source it opened
\* and the loop ends.
XmlLoopEnd ==
    /\ pc = "xml_loop"
    /\ event_pos = Len(IterParse(xml_file))
    /\ ~ParseFails(xml_file)
    /\ open_handles' = open_handles \ {"data/hmdb_metabolites.xml"}
    /\ pc' = "xml_parsed"
    /\ UNCHANGED <<stdout, xml_file, event_pos, metabolite_data, cleared,
                   sdf_file, mol_pos, data, json_file>>
    /\ UNCHANGED qvars

\* line 67 with save_as_json (lines 51-53)
XmlSave ==
    /\ pc = "xml_parsed"
    /\ json_file' = JsonDump(metabolite_data)
    /\ open_handles' = WithOpen(open_handles, "metabolites.json")
    /\ pc' = "xml_saved"
    /\ UNCHANGED <<stdout, xml_file, event_pos, metabolite_data, cleared,
                   sdf_file, mol_pos, data>>
    /\ UNCHANGED qvars

\* line 69
XmlPrint ==
    /\ pc = "xml_saved"
    /\ stdout' = Append(stdout, <<"Conversion completed", 0, "metabolites.json">>)
    /\ pc' = "xml_done"
    /\ UNCHANGED cvars
    /\ UNCHANGED qvars

-----------------------------------------------------------------------------
(* ConvertSdfToJson.py.                                                    *)
(*                                                                         *)
(* The SDF file is the sequence of what Chem.SDMolSupplier yields: None    *)
(* for a molecule RDKit cannot parse, else the molecule, here the map of   *)
(* its properties.                                                         *)

\* The properties sdf_to_json reads, in its order.
SdfProps == <<"LM_ID", "NAME", "SYSTEMATIC_NAME", "CATEGORY", "FORMULA",
              "INCHI_KEY", "SMILES">>

SdfPropSet == { SdfProps[i] : i \in DOMAIN SdfProps }

NoMol == [parsed |-> FALSE, props |-> <<>>]

FullProps == [k \in SdfPropSet |-> "v"]

\* The molecules drawn: unparsable, every property present, or one missing.
SdfMols ==
    {NoMol}
      \cup { [parsed |-> TRUE, props |-> pr] :
                 pr \in {FullProps}
                          \cup { [k \in SdfPropSet \ {m} |-> "v"] : m \in SdfPropSet } }

\* lines 47-68: mol.GetProp(p) if mol.HasProp(p) else None, for each property.
MolData(props) ==
    [k \in SdfPropSet |-> IF k \in DOMAIN props THEN props[k] ELSE None]

InitSdf ==
    /\ pc = "sdf_loop"
    /\ open_handles = {"data/structures.sdf"}
    /\ sdf_file \in SeqsUpTo(SdfMols, MaxEntries)
    /\ mol_pos = 0
    /\ data = <<>>
    /\ xml_file = <<>>
    /\ event_pos = 0
    /\ metabolite_data = <<>>
    /\ cleared = {}
    /\ json_file = Unwritten
    /\ stdout = <<>>
    /\ NoQuantifier

\* lines 45-69: one turn of the loop over the molecules.
SdfMol ==
    /\ pc = "sdf_loop"
    /\ mol_pos < Len(sdf_file)
    /\ LET mol == sdf_file[mol_pos + 1]
       IN  IF mol.parsed
           THEN data' = Append(data, MolData(mol.props))
           ELSE UNCHANGED data
    /\ mol_pos' = mol_pos + 1
    /\ UNCHANGED <<pc, stdout, xml_file, event_pos, metabolite_data, cleared,
                   sdf_file, json_file, open_handles>>
    /\ UNCHANGED qvars

\* lines 71-73 and the return of sdf_to_json: the supplier, which only the
\* local suppl refers to, is destroyed and its stream closed.
SdfSave ==
    /\ pc = "sdf_loop"
    /\ mol_pos = Len(sdf_file)
    /\ json_file' = JsonDump(data)
    /\ open_handles' =
           WithOpen(open_handles, "lipids.json") \ {"data/structures.sdf"}
    /\ pc' = "sdf_saved"
    /\ UNCHANGED <<stdout, xml_file, event_pos, metabolite_data, cleared,
                   sdf_file, mol_pos, data>>
    /\ UNCHANGED qvars

\* line 82
SdfPrint ==
    /\ pc = "sdf_saved"
    /\ stdout' = Append(stdout, <<"Conversion completed", 0, "lipids.json">>)
    /\ pc' = "sdf_done"
    /\ UNCHANGED cvars
    /\ UNCHANGED qvars

InitConvert == InitXml \/ InitSdf

NextConvert ==
    \/ XmlEvent
    \/ XmlParseError
    \/ XmlLoopEnd
    \/ XmlSave
    \/ XmlPrint
    \/ SdfMol
    \/ SdfSave
    \/ SdfPrint

-----------------------------------------------------------------------------
Spec == InitQuantifier /\ [][NextQuantifier]_vars

SpecCounts == InitCounts /\ [][NextCounts]_vars

SpecConvert == InitConvert /\ [][NextConvert]_vars

-----------------------------------------------------------------------------
(* Measures the properties use.                                            *)

\* Rounding allowed on a length (0.005) and on an area (0.1): far above the
\* error of the fixed-point representation, far below every violation shown.
LenTol == LenUnit \div 200
AreaTol == AreaUnit \div 10

\* Euclidean distance of two positions.
Distance(p, q) ==
    ISqrt((p[1] - q[1]) * (p[1] - q[1]) + (p[2] - q[2]) * (p[2] - q[2]))

StripWidth == LenUnit \div 100

\* Twice the half-width of the overlap at the middle of strip k, times the
\* strip's width; strip k starts at y0 + k * StripWidth on the line of centres.
Strip(ra, rb, d, y0, k) ==
    LET ym == y0 + k * StripWidth + StripWidth \div 2
        ha == ISqrt(Max(0, ra * ra - ym * ym))
        hb == ISqrt(Max(0, rb * rb - (ym - d) * (ym - d)))
    IN  2 * Min(ha, hb) * StripWidth

RECURSIVE StripSum(_, _, _, _, _, _)
StripSum(ra, rb, d, y0, lo, hi) ==
    IF lo >= hi THEN 0
    ELSE IF hi = lo + 1 THEN Strip(ra, rb, d, y0, lo)
    ELSE LET mid == (lo + hi) \div 2
         IN  StripSum(ra, rb, d, y0, lo, mid) + StripSum(ra, rb, d, y0, mid, hi)

\* The lens area of two circles of radii ra and rb whose centres are d apart:
\* the overlap cut into strips across the line of centres, each as wide as the
\* narrower circle is there.  Agrees with the closed two-circle formula to
\* well within AreaTol.
LensArea(ra, rb, d) ==
    LET y0 == Max(0 - ra, d - rb)
        y1 == Min(ra, d + rb)
    IN  IF y1 <= y0 THEN 0
        ELSE StripSum(ra, rb, d, y0, 0, (y1 - y0 + StripWidth - 1) \div StripWidth)

QuantifierFields ==
    {"INCHI_KEY", "SMILES", "FORMULA", "inchikey", "smiles", "chemical_formula"}

KeyValues == InchiKeyValues \cup SmilesValues \cup FormulaValues

Holds(dataset, key, v) ==
    \E i \in DOMAIN dataset : key \in DOMAIN dataset[i] /\ dataset[i][key] = v

-----------------------------------------------------------------------------
(* Claims.                                                                 *)

\* C1: for every dataset and field name, extract_values never contains None;
\* a record without the field and a record holding null contribute nothing,
\* and every non-null value some record holds is in the result (once: the
\* result is a set, and the size counted of it is the number of distinct
\* values).  Stated of the run where the key sets have just been extracted.
C1_ExtractValuesExcludesNone ==
    pc = "counted" =>
        /\ \A key \in QuantifierFields :
             \A dataset \in {lipids_data, metabolites_data} :
                LET result == extract_values(dataset, key)
                IN  /\ None \notin result
                    /\ result \subseteq KeyValues
                    /\ \A v \in KeyValues :
                          v \in result <=> Holds(dataset, key, v)
        /\ total_metabolite_inchikeys = Cardinality(
               { v \in KeyValues : Holds(metabolites_data, "inchikey", v) })
        /\ total_lipid_inchikeys = Cardinality(
               { v \in KeyValues : Holds(lipids_data, "INCHI_KEY", v) })

\* C1 witness: the sizes are counted of a metabolite dataset in which two
\* records carry the same key, one holds an explicit null and two lack a
\* field.
C1_Witness ==
    /\ pc = "counted"
    /\ metabolites_data = << [inchikey |-> "X1", smiles |-> "S1"],
                             [inchikey |-> "X1"],
                             [inchikey |-> None] >>
    /\ total_metabolite_inchikeys = 1
    /\ extract_values(metabolites_data, "smiles") = {"S1"}
    /\ extract_values(metabolites_data, "chemical_formula") = {}

\* C2: when the metabolite key set is empty the run ends in an explicit
\* EmptyDataset error, with no percentage and no division-by-zero failure.
C2_EmptyDatasetReported ==
    (total_metabolite_inchikeys = 0 /\ pc \in {"halted", "percent", "printed", "done"})
        => (error = "EmptyDataset" /\ percent = Unset)

\* C3: the drawn geometry satisfies
\* |radius_a - radius_b| <= distance(center_a, center_b) <= radius_a + radius_b.
C3_DistanceBetweenRadii ==
    pc = "done" =>
        LET d == Distance(geometry.pos_metabolite, geometry.pos_lipid)
        IN  /\ Abs(geometry.radius_metabolite - geometry.radius_lipid) - LenTol <= d
            /\ d <= geometry.radius_metabolite + geometry.radius_lipid + LenTol

\* C4: in the interior case 0 < area_common < min(area_a, area_b) the lens area
\* of the two circles at the distance used equals area_common.
C4_LensAreaIsCommonArea ==
    (/\ pc = "done"
     /\ 0 < geometry.size_common
     /\ geometry.size_common < Min(geometry.size_metabolite, geometry.size_lipid))
        => Abs(LensArea(geometry.radius_metabolite, geometry.radius_lipid,
                        Distance(geometry.pos_metabolite, geometry.pos_lipid))
               - geometry.size_common) <= AreaTol

\* C5 as stated: the percentage is 100 * common / total rounded to two places,
\* a tie going up.
C5_RoundHalfUp ==
    pc \in {"percent", "done"} =>
        percent = RoundHalfUp(100 * 100 * total_common_inchikeys,
                              total_metabolite_inchikeys)

\* C5 as amended: the percentage is the hundredth nearest to
\* 100 * common / total, and of two equally near hundredths the even one
\* (0.125 gives 0.12); 2 of 3 gives 66.67.
C5_RoundHalfEven ==
    pc \in {"percent", "done"} =>
        LET exact == 100 * 100 * total_common_inchikeys     \* times total
            off   == Abs(percent * total_metabolite_inchikeys - exact)
        IN  /\ 2 * off <= total_metabolite_inchikeys
            /\ 2 * off = total_metabolite_inchikeys => percent % 2 = 0
            /\ (total_common_inchikeys = 2 /\ total_metabolite_inchikeys = 3)
                   => percent = 6667

\* C5 witness: 1 of 32 is 3.125 percent, reported as 3.12.
C5_Witness ==
    /\ pc = "percent"
    /\ total_common_inchikeys = 1
    /\ total_metabolite_inchikeys = 32
    /\ percent = 312

\* C6: each of the three common sets is the same with the lipid and the
\* metabolite key sets swapped as operands of the intersection.
C6_IntersectionCommutes ==
    pc = "matched" =>
        /\ common_inchikeys =
               Intersection(extract_values(metabolites_data, "inchikey"),
                            extract_values(lipids_data, "INCHI_KEY"))
        /\ common_smiles =
               Intersection(extract_values(metabolites_data, "smiles"),
                            extract_values(lipids_data, "SMILES"))
        /\ common_formula =
               Intersection(extract_values(metabolites_data, "chemical_formula"),
                            extract_values(lipids_data, "FORMULA"))

\* C6 witness: the common sets are computed of two datasets whose key sets
\* differ and share a key.
C6_Witness ==
    /\ pc = "matched"
    /\ common_inchikeys = {"X1"}
    /\ extract_values(lipids_data, "INCHI_KEY") = {"X1", "X2"}
    /\ extract_values(metabolites_data, "inchikey") = {"X1"}
    /\ common_smiles = {"S1"}
    /\ common_formula = {}

\* The source of each record a converter emits, in order: the sub-elements of
\* the elements whose end event the XML loop acts on, the properties of the
\* molecules the SDF loop does not skip.
XmlSources ==
    LET Acted(e) == EndsWith(e.tag, "metabolite")
        kept == SelectSeq(xml_file, Acted)
    IN  [i \in DOMAIN kept |-> kept[i].subs]

SdfSources ==
    LET Parsed(m) == m.parsed
        kept == SelectSeq(sdf_file, Parsed)
    IN  [i \in DOMAIN kept |-> kept[i].props]

AbsentAreNull(sources, declared, records) ==
    /\ Len(records) = Len(sources)
    /\ Len(json_file) = Len(sources)
    /\ \A i \in DOMAIN sources : \A k \in declared :
          k \notin DOMAIN sources[i]
              => /\ k \in DOMAIN records[i] /\ records[i][k] = None
                 /\ k \in DOMAIN json_file[i] /\ json_file[i][k] = JsonNull

\* C7: in every record of either converter, each declared field the source
\* entry lacks is in the record, and in the JSON written, as an explicit null.
C7_AbsentFieldsExplicitNull ==
    /\ pc \in {"xml_saved", "xml_done"}
           => AbsentAreNull(XmlSources, KeyOrderSet, metabolite_data)
    /\ pc \in {"sdf_saved", "sdf_done"}
           => AbsentAreNull(SdfSources, SdfPropSet, data)

AllAreEntries ==
    \A i \in DOMAIN xml_file : xml_file[i].tag = HmdbTag("metabolite")

EntriesEnded ==
    LET events == IterParse(xml_file)
    IN  { j \in 1..event_pos :
            /\ events[j].event = "end"
            /\ events[j].tag = HmdbTag("metabolite") }

C9_DisjointTouching ==
    (pc = "done" /\ geometry.size_common <= 0 /\ geometry.size_lipid > 0)
        => Abs(Distance(geometry.pos_metabolite, geometry.pos_lipid)
               - (geometry.radius_metabolite + geometry.radius_lipid)) <= LenTol

\* C10: when area_common >= min(area_a, area_b) the distance of the centres
\* is |radius_a - radius_b|.  Stated of a non-empty smaller key set.
C10_ContainedInside ==
    (/\ pc = "done"
     /\ geometry.size_common > 0
     /\ geometry.size_common >= Min(geometry.size_metabolite, geometry.size_lipid))
        => Abs(Distance(geometry.pos_metabolite, geometry.pos_lipid)
               - Abs(geometry.radius_metabolite - geometry.radius_lipid))
             <= LenTol

\* C11: when the run fails (the reconciliation or the geometry step raises),
\* it has halted with no partial output: no line printed, no key-set text
\* file written (also when save_txt is true) and no figure saved.
C11_NoPartialOutputOnFailure ==
    pc = "halted" => (stdout = <<>> /\ files = {})

\* C12: every file a converter opened (the source it parses, the JSON file it
\* writes) is released on every exit path: after normal completion and after
\* a parse failure part-way through the source, no handle remains open.
C12_HandlesReleased ==
    pc \in {"xml_done", "sdf_done", "halted"} => open_handles = {}

\* C12 witness: the parser failed after a record had been emitted, and the
\* script has ended with nothing open.
C12_Witness ==
    /\ pc = "halted"
    /\ error = "ParseError"
    /\ Len(metabolite_data) > 0
    /\ open_handles = {}

\* The elements whose end event the XML loop acts on, in document order: the
\* i-th record is read off the i-th of them.
ActedElements ==
    LET Acted(e) == EndsWith(e.tag, "metabolite")
    IN  SelectSeq(xml_file, Acted)

\* C13: the record of every metabolite entry carries each documented attribute
\* (accession, name, iupac_name, chemical_formula, inchikey, smiles) whose
\* sub-element the entry has, with the sub-element's text as value; in
\* particular name is populated from the entry's name sub-element.
C13_DocumentedAttributesCarried ==
    \A i \in DOMAIN metabolite_data :
        ActedElements[i].tag = HmdbTag("metabolite")
            => \A k \in SubTagSet \cap DOMAIN ActedElements[i].subs :
                  /\ k \in DOMAIN metabolite_data[i]
                  /\ metabolite_data[i][k] = ActedElements[i].subs[k]

\* C14: the XML loop treats an element as an entry boundary if and only if its
\* local tag name is exactly "metabolite": an element whose name merely ends
\* with that text emits no record and is not cleared, so the records are as
\* many as the entry elements whose end event has been delivered.
C14_BoundaryIffExactLocalName ==
    /\ Len(metabolite_data) = Cardinality(EntriesEnded)
    /\ \A i \in cleared : xml_file[i].tag = HmdbTag("metabolite")

\* The elements of which the loop has been handed the given event.
Delivered(kind) ==
    LET events == IterParse(xml_file)
    IN  { i \in DOMAIN xml_file :
            \E j \in 1..event_pos :
                events[j] = [event |-> kind, elem |-> i,
                             tag |-> xml_file[i].tag] }

EntriesDelivered(kind) ==
    { i \in Delivered(kind) : xml_file[i].tag = HmdbTag("metabolite") }

\* The entries whose parsed subtree still holds its content.
HoldingContent == EntriesDelivered("start") \ cleared

CommonWithinBoth ==
    /\ pc = "matched"
           => /\ common_inchikeys \subseteq extract_values(lipids_data, "INCHI_KEY")
              /\ common_inchikeys \subseteq extract_values(metabolites_data, "inchikey")
              /\ common_smiles \subseteq extract_values(lipids_data, "SMILES")
              /\ common_smiles \subseteq extract_values(metabolites_data, "smiles")
              /\ common_formula \subseteq extract_values(lipids_data, "FORMULA")
              /\ common_formula \subseteq
                     extract_values(metabolites_data, "chemical_formula")
              /\ Cardinality(common_inchikeys) <=
                     Min(total_metabolite_inchikeys, total_lipid_inchikeys)
    /\ (pc = "percent" /\ total_metabolite_inchikeys > 0)
           => (0 <= percent /\ percent <= 100 * 100)

\* C16: each common set count_matching_inchikeys returns is a subset of both
\* key sets it was computed from, so the number of common keys is at most the
\* smaller of the two key counts and, when the metabolite key set is not
\* empty, the percentage lies between 0 and 100; no step of the run changes
\* the datasets passed in.
C16_CommonIsSubsetDatasetsUnchanged ==
    /\ []CommonWithinBoth
    /\ [][/\ lipids_data' = lipids_data
          /\ metabolites_data' = metabolites_data]_vars

\* C16 witness: one of two metabolite keys is also the lipid key: 50 percent.
C16_Witness ==
    /\ pc = "percent"
    /\ total_metabolite_inchikeys = 2
    /\ total_lipid_inchikeys = 1
    /\ Cardinality(common_inchikeys) = 1
    /\ percent = 50 * 100

=============================================================================
